---- MODULE Spec2Model ----
(***************************************************************************)
(* State-machine model of ossm_models: SMSModel construction (the id       *)
(* indices), the binding resolver, the graph builder and the port          *)
(* compatibility checker.                                                  *)
(*                                                                         *)
(* Python values are encoded as follows.                                   *)
(*   Optional[T]   <<>> for None, <<x>> for a value x                      *)
(*   list          sequence                                                *)
(*   dict          function (DOMAIN = the keys)                            *)
(*   str           TLA+ string; an axis-spec, which the code splits and    *)
(*                 strips, is a sequence of one-character strings          *)
(*   exception     record [type, msg, id]                                  *)
(***************************************************************************)
EXTENDS Integers, Sequences, FiniteSets, TLC

VARIABLES
    modules,        \* SMSModel.modules: list of Module
    connections,    \* SMSModel.connections: list of Connection
    port_groups,    \* SMSModel.port_groups: dict id -> PortGroup
    contract,       \* SMSModel.contract: Optional[Contract]
    module_by_id,   \* SMSModel.module_by_id
    port_by_id,     \* SMSModel.port_by_id
    pc,             \* "new" before __init__, then "constructed" or "failed"
    call,           \* the last method invoked: [op, arg]
    ret,            \* Optional: the value the last method returned
    raised,         \* Optional: the exception the last method raised
    src,            \* ports_compatible: first argument
    dst,            \* ports_compatible: second argument
    doc,            \* from_xml: the document at xml_path
    fx              \* from_xml: its position, "none" when it is not running

vars == <<modules, connections, port_groups, contract, module_by_id,
          port_by_id, pc, call, ret, raised, src, dst, doc, fx>>

(***************************************************************************)
(* Bounds of the explored inputs.                                          *)
(***************************************************************************)
MaxUnits == 2
MaxPorts == 2
MaxTotalPorts == 3
MaxConns == 2
MaxGroups == 2
MaxMembers == 3
MaxDims == 2
MaxLoadPorts == 1
MaxLoadConns == 1
MaxLoadBindings == 1
MaxSensors == 2
MaxActuators == 1

UnitIds == {"A", "B"}
PortIds == {"p1", "p2", "p3"}
GroupIds == {"g1", "g2"}
Dirs == {"in", "out"}
DTypes == {"f32", "i32"}

None == <<>>
Some(x) == <<x>>
IsNone(o) == o = <<>>
Val(o) == o[1]

SeqsUpTo(S, n) == UNION {[1..k -> S] : k \in 0..n}

\* Python truthiness of an Optional[str]: None and "" are falsy.
Truthy(o) == o # None /\ Val(o) # ""

RECURSIVE SumSeq(_)
SumSeq(s) == IF s = <<>> THEN 0 ELSE Head(s) + SumSeq(Tail(s))

RECURSIVE Flatten(_)
Flatten(ss) == IF ss = <<>> THEN <<>> ELSE Head(ss) \o Flatten(Tail(ss))

\* No document: the model is built from constructor arguments.
NoDoc == [valid |-> TRUE, time_base |-> <<>>, units |-> <<>>,
          connections |-> <<>>, port_groups |-> <<>>, contract |-> <<>>]

NoCall == [op |-> "none", arg |-> None]
Exc(type, msg, id) == [type |-> type, msg |-> msg, id |-> id]

(***************************************************************************)
(* Domain types (core/types.py).                                           *)
(***************************************************************************)
Port(id, dir, dtype, shape, module_id) ==
    [id |-> id, dir |-> dir, dtype |-> dtype, shape |-> shape,
     module_id |-> module_id]

Module(id, ports) == [id |-> id, ports |-> ports]

Connection(from_id, to_id, delay_ms) ==
    [from_id |-> from_id, to_id |-> to_id, delay_ms |-> delay_ms]

PortGroup(id, members) == [id |-> id, members |-> members]

(***************************************************************************)
(* SMSModel.__init__: the two indices.                                     *)
(***************************************************************************)
\* {m.id: m for m in modules}: a later module replaces an earlier one
\* with the same id.
LastWithId(ms, id) ==
    ms[CHOOSE i \in DOMAIN ms :
          /\ ms[i].id = id
          /\ \A j \in DOMAIN ms : ms[j].id = id => j <= i]

ModuleIndex(ms) ==
    [id \in {ms[i].id : i \in DOMAIN ms} |-> LastWithId(ms, id)]

\* for m in modules: for p in m.ports: the ports in declaration order
AllPorts(ms) == Flatten([i \in DOMAIN ms |-> ms[i].ports])

\* The loop without its membership test: a repeated id overwrites.
RECURSIVE IndexPorts_Overwrite(_, _, _)
IndexPorts_Overwrite(ps, i, idx) ==
    IF i > Len(ps) THEN [raised |-> None, index |-> idx]
    ELSE IndexPorts_Overwrite(ps, i + 1,
                              [k \in DOMAIN idx \cup {ps[i].id} |->
                                  IF k = ps[i].id THEN ps[i] ELSE idx[k]])

\* The indexing loop over ports ps from position i with the index built
\* so far: stops at the first port whose id is already a key.
RECURSIVE IndexPorts(_, _, _)
IndexPorts(ps, i, idx) ==
    IF i > Len(ps) THEN [raised |-> None, index |-> idx]
    ELSE IF ps[i].id \in DOMAIN idx
         THEN [raised |-> Some(Exc("ValueError", "duplicate port id", ps[i].id)),
               index |-> idx]
         ELSE IndexPorts(ps, i + 1,
                         [k \in DOMAIN idx \cup {ps[i].id} |->
                             IF k = ps[i].id THEN ps[i] ELSE idx[k]])

SMSModel_init ==
    /\ pc = "new"
    /\ LET r == IndexPorts(AllPorts(modules), 1, <<>>) IN
        /\ module_by_id' = ModuleIndex(modules)
        /\ port_by_id' = r.index
        /\ raised' = r.raised
        /\ pc' = IF IsNone(r.raised) THEN "constructed" ELSE "failed"
        /\ fx' = IF fx = "decoded" /\ ~IsNone(r.raised) THEN "failed" ELSE fx
    /\ call' = [op |-> "__init__", arg |-> None]
    /\ ret' = None
    /\ UNCHANGED <<modules, connections, port_groups, contract, src, dst, doc>>

(***************************************************************************)
(* networkx graphs. A MultiDiGraph keeps every added edge: a new edge      *)
(* between u and v gets the next free key. A DiGraph keeps one attribute   *)
(* dict per ordered node pair. Adding an edge adds its missing endpoints.  *)
(***************************************************************************)
EmptyMultiDiGraph == [nodes |-> <<>>, edges |-> <<>>]
EmptyDiGraph == [nodes |-> {}, edges |-> <<>>]

Multi_add_node(g, n, attr) ==
    [g EXCEPT !.nodes = IF n \in DOMAIN g.nodes
                        THEN [g.nodes EXCEPT ![n] = attr @@ @]
                        ELSE (n :> attr) @@ g.nodes]

\* A simple digraph in place of the multigraph: an edge between u and v
\* that exists is replaced.
Multi_add_edge_Simple(g, u, v, attr) ==
    LET g1 == IF u \in DOMAIN g.nodes THEN g ELSE Multi_add_node(g, u, <<>>)
        g2 == IF v \in DOMAIN g1.nodes THEN g1 ELSE Multi_add_node(g1, v, <<>>)
        keep(e) == ~(e.u = u /\ e.v = v)
    IN [g2 EXCEPT !.edges =
           Append(SelectSeq(@, keep), [u |-> u, v |-> v, key |-> 0, attr |-> attr])]

Multi_add_edge(g, u, v, attr) ==
    LET key == Cardinality({i \in DOMAIN g.edges :
                               g.edges[i].u = u /\ g.edges[i].v = v})
        g1 == IF u \in DOMAIN g.nodes THEN g ELSE Multi_add_node(g, u, <<>>)
        g2 == IF v \in DOMAIN g1.nodes THEN g1 ELSE Multi_add_node(g1, v, <<>>)
    IN [g2 EXCEPT !.edges =
           Append(@, [u |-> u, v |-> v, key |-> key, attr |-> attr])]

Di_add_node(g, n) == [g EXCEPT !.nodes = @ \cup {n}]

Di_has_edge(g, u, v) == <<u, v>> \in DOMAIN g.edges

Di_add_edge(g, u, v, attr) ==
    [nodes |-> g.nodes \cup {u, v},
     edges |-> IF Di_has_edge(g, u, v)
               THEN [g.edges EXCEPT ![<<u, v>>] = attr @@ @]
               ELSE (<<u, v>> :> attr) @@ g.edges]

(***************************************************************************)
(* SMSModel.resolve_connection_ports and the binding resolver. Each        *)
(* returns [raised, val]: the exception, or the value.                     *)
(***************************************************************************)
Raise(e) == [raised |-> Some(e), val |-> None]
Return(v) == [raised |-> None, val |-> Some(v)]

\* self.port_by_id[k]
PortLookup(k) ==
    IF k \in DOMAIN port_by_id THEN Return(port_by_id[k])
    ELSE Raise(Exc("KeyError", "", k))

resolve_connection_ports(c) ==
    LET f == PortLookup(c.from_id) t == PortLookup(c.to_id) IN
    IF f.raised # None THEN f
    ELSE IF t.raised # None THEN t
    ELSE Return(<<Val(f.val), Val(t.val)>>)

\* The comprehension leaving out the members the index does not hold.
RECURSIVE MemberPorts_Skip(_, _, _)
MemberPorts_Skip(members, i, acc) ==
    IF i > Len(members) THEN Return(acc)
    ELSE LET r == PortLookup(members[i]) IN
         IF r.raised # None THEN MemberPorts_Skip(members, i + 1, acc)
         ELSE MemberPorts_Skip(members, i + 1, Append(acc, Val(r.val)))

\* [self.port_by_id[pid] for pid in group.members], from member i on
RECURSIVE MemberPorts(_, _, _)
MemberPorts(members, i, acc) ==
    IF i > Len(members) THEN Return(acc)
    ELSE LET r == PortLookup(members[i]) IN
         IF r.raised # None THEN r
         ELSE MemberPorts(members, i + 1, Append(acc, Val(r.val)))

\* self.port_groups.get(gid), then the `if not group` test: a PortGroup
\* is always truthy, so only a missing key raises.
GroupPorts(gid) ==
    IF gid \notin DOMAIN port_groups
    THEN Raise(Exc("KeyError", "unknown port_group", gid))
    ELSE MemberPorts(port_groups[gid].members, 1, <<>>)

sensor_targets(s) ==
    IF Truthy(s.maps_to) /\ Truthy(s.maps_to_group)
    THEN Raise(Exc("ValueError", "both maps_to and maps_to_group set", s.name))
    ELSE IF Truthy(s.maps_to) THEN
        LET r == PortLookup(Val(s.maps_to)) IN
        IF r.raised # None THEN r ELSE Return(<<Val(r.val)>>)
    ELSE IF Truthy(s.maps_to_group) THEN GroupPorts(Val(s.maps_to_group))
    ELSE Return(<<>>)

actuator_sources(a) ==
    IF Truthy(a.maps_from) /\ Truthy(a.maps_from_group)
    THEN Raise(Exc("ValueError", "both maps_from and maps_from_group set", a.name))
    ELSE IF Truthy(a.maps_from) THEN
        LET r == PortLookup(Val(a.maps_from)) IN
        IF r.raised # None THEN r ELSE Return(<<Val(r.val)>>)
    ELSE IF Truthy(a.maps_from_group) THEN GroupPorts(Val(a.maps_from_group))
    ELSE Return(<<>>)

(***************************************************************************)
(* SMSModel.build_graphs. The pair of graphs being built is g = [port_g,   *)
(* mod_g].                                                                 *)
(***************************************************************************)
PortNodeAttr(m, p) ==
    [module |-> m.id, dir |-> p.dir, dtype |-> p.dtype,
     shape_spec |-> IF p.shape # None THEN Val(p.shape).spec ELSE None,
     shape_dims |-> IF p.shape # None
                    THEN [i \in DOMAIN Val(p.shape).dims |->
                             <<Val(p.shape).dims[i].name, Val(p.shape).dims[i].size>>]
                    ELSE <<>>]

RECURSIVE AddPortNodes(_, _, _)
AddPortNodes(pg, m, i) ==
    IF i > Len(m.ports) THEN pg
    ELSE AddPortNodes(Multi_add_node(pg, m.ports[i].id, PortNodeAttr(m, m.ports[i])),
                      m, i + 1)

IsIn(p) == p.dir = "in"
IsOut(p) == p.dir = "out"

\* The inputs zipped with the outputs instead of crossed with them.
InternalPairs_Zip(m) ==
    LET in_ports == SelectSeq(m.ports, IsIn)
        out_ports == SelectSeq(m.ports, IsOut)
        n == IF Len(in_ports) < Len(out_ports) THEN Len(in_ports) ELSE Len(out_ports)
    IN [i \in 1..n |-> <<in_ports[i], out_ports[i]>>]

\* for ip in in_ports: for op in out_ports: the pairs in loop order
InternalPairs(m) ==
    LET in_ports == SelectSeq(m.ports, IsIn)
        out_ports == SelectSeq(m.ports, IsOut)
    IN Flatten([i \in DOMAIN in_ports |->
                  [j \in DOMAIN out_ports |-> <<in_ports[i], out_ports[j]>>]])

RECURSIVE AddInternalEdges(_, _, _)
AddInternalEdges(pg, pairs, i) ==
    IF i > Len(pairs) THEN pg
    ELSE AddInternalEdges(
             Multi_add_edge(pg, pairs[i][1].id, pairs[i][2].id, [kind |-> "internal"]),
             pairs, i + 1)

\* for m in self.modules: ...
RECURSIVE AddModules(_, _, _)
AddModules(g, ms, i) ==
    IF i > Len(ms) THEN g
    ELSE LET m == ms[i]
             mg == Di_add_node(g.mod_g, m.id)
             pg == AddInternalEdges(AddPortNodes(g.port_g, m, 1), InternalPairs(m), 1)
         IN AddModules([port_g |-> pg, mod_g |-> mg], ms, i + 1)

\* The body with port_pairs reset on every connection, not only the first.
AddConnection_Reset(g, c, sp, dp) ==
    LET pg == Multi_add_edge(g.port_g, sp.id, dp.id,
                             [kind |-> "connection", delay_ms |-> c.delay_ms,
                              from_id |-> c.from_id, to_id |-> c.to_id])
        mg1 == Di_add_edge(g.mod_g, sp.module_id, dp.module_id,
                           [kind |-> "connection", port_pairs |-> <<>>])
        e == <<sp.module_id, dp.module_id>>
        mg3 == [mg1 EXCEPT !.edges[e].port_pairs = Append(@, <<sp.id, dp.id>>)]
    IN [port_g |-> pg, mod_g |-> mg3]

\* The body of `for c in self.connections` once both ports resolved.
AddConnection(g, c, sp, dp) ==
    LET pg == Multi_add_edge(g.port_g, sp.id, dp.id,
                             [kind |-> "connection", delay_ms |-> c.delay_ms,
                              from_id |-> c.from_id, to_id |-> c.to_id])
        mg1 == IF ~Di_has_edge(g.mod_g, sp.module_id, dp.module_id)
               THEN Di_add_edge(g.mod_g, sp.module_id, dp.module_id,
                                [kind |-> "connection"])
               ELSE g.mod_g
        e == <<sp.module_id, dp.module_id>>
        mg2 == IF "port_pairs" \notin DOMAIN mg1.edges[e]
               THEN [mg1 EXCEPT !.edges[e] = [port_pairs |-> <<>>] @@ @]
               ELSE mg1
        mg3 == [mg2 EXCEPT !.edges[e].port_pairs = Append(@, <<sp.id, dp.id>>)]
    IN [port_g |-> pg, mod_g |-> mg3]

\* The loop skipping a connection whose endpoints do not resolve.
RECURSIVE AddConnections_Skip(_, _, _)
AddConnections_Skip(g, cs, i) ==
    IF i > Len(cs) THEN Return(g)
    ELSE LET r == resolve_connection_ports(cs[i]) IN
         IF r.raised # None THEN AddConnections_Skip(g, cs, i + 1)
         ELSE AddConnections_Skip(
                  AddConnection(g, cs[i], Val(r.val)[1], Val(r.val)[2]), cs, i + 1)

\* for c in self.connections: an unresolved endpoint raises out of the loop
RECURSIVE AddConnections(_, _, _)
AddConnections(g, cs, i) ==
    IF i > Len(cs) THEN Return(g)
    ELSE LET r == resolve_connection_ports(cs[i]) IN
         IF r.raised # None THEN r
         ELSE AddConnections(AddConnection(g, cs[i], Val(r.val)[1], Val(r.val)[2]),
                             cs, i + 1)

RECURSIVE AddSensorEdges(_, _, _, _)
AddSensorEdges(pg, s_node, targets, i) ==
    IF i > Len(targets) THEN pg
    ELSE AddSensorEdges(
             Multi_add_edge(pg, s_node, targets[i].id, [kind |-> "sensor_binding"]),
             s_node, targets, i + 1)

\* for s in self.contract.sensors: ...
RECURSIVE AddSensors(_, _, _)
AddSensors(pg, ss, i) ==
    IF i > Len(ss) THEN Return(pg)
    ELSE LET r == sensor_targets(ss[i]) IN
         IF r.raised # None THEN r
         ELSE IF Val(r.val) # <<>>
         THEN LET s_node == "sensor:" \o ss[i].name
                  pg1 == Multi_add_node(pg, s_node,
                             [kind |-> "sensor", modality |-> ss[i].modality])
              IN AddSensors(AddSensorEdges(pg1, s_node, Val(r.val), 1), ss, i + 1)
         ELSE AddSensors(pg, ss, i + 1)

RECURSIVE AddActuatorEdges(_, _, _, _)
AddActuatorEdges(pg, a_node, sources, i) ==
    IF i > Len(sources) THEN pg
    ELSE AddActuatorEdges(
             Multi_add_edge(pg, sources[i].id, a_node, [kind |-> "actuator_binding"]),
             a_node, sources, i + 1)

\* for a in self.contract.actuators: ...
RECURSIVE AddActuators(_, _, _)
AddActuators(pg, as, i) ==
    IF i > Len(as) THEN Return(pg)
    ELSE LET r == actuator_sources(as[i]) IN
         IF r.raised # None THEN r
         ELSE IF Val(r.val) # <<>>
         THEN LET a_node == "actuator:" \o as[i].name
                  pg1 == Multi_add_node(pg, a_node,
                             [kind |-> "actuator", effector |-> as[i].effector])
              IN AddActuators(AddActuatorEdges(pg1, a_node, Val(r.val), 1), as, i + 1)
         ELSE AddActuators(pg, as, i + 1)

\* if self.contract: ... (a Contract object is always truthy)
AddBindings(g) ==
    IF contract = None THEN Return(g)
    ELSE LET rs == AddSensors(g.port_g, Val(contract).sensors, 1) IN
         IF rs.raised # None THEN rs
         ELSE LET ra == AddActuators(Val(rs.val), Val(contract).actuators, 1) IN
              IF ra.raised # None THEN ra
              ELSE Return([g EXCEPT !.port_g = Val(ra.val)])

build_graphs ==
    LET g0 == AddModules([port_g |-> EmptyMultiDiGraph, mod_g |-> EmptyDiGraph],
                         modules, 1)
        rc == AddConnections(g0, connections, 1)
    IN IF rc.raised # None THEN rc ELSE AddBindings(Val(rc.val))

\* A method is called on a constructed model. The methods read the model
\* and change nothing in it, so one call per behaviour reaches every result.
Callable == pc = "constructed" /\ call.op = "__init__"

Call_build_graphs ==
    /\ Callable
    /\ call' = [op |-> "build_graphs", arg |-> None]
    /\ ret' = build_graphs.val
    /\ raised' = build_graphs.raised
    /\ UNCHANGED <<modules, connections, port_groups, contract, module_by_id,
                   port_by_id, pc, src, dst, doc, fx>>

(***************************************************************************)
(* The binding resolver called on a binding s or a.                        *)
(***************************************************************************)
SensorBinding(name, modality, maps_to, maps_to_group) ==
    [name |-> name, modality |-> modality, maps_to |-> maps_to,
     maps_to_group |-> maps_to_group]

ActuatorBinding(name, effector, maps_from, maps_from_group) ==
    [name |-> name, effector |-> effector, maps_from |-> maps_from,
     maps_from_group |-> maps_from_group]

Contract(sensors, actuators) == [sensors |-> sensors, actuators |-> actuators]

Call_sensor_targets(s) ==
    /\ Callable
    /\ call' = [op |-> "sensor_targets", arg |-> Some(s)]
    /\ ret' = sensor_targets(s).val
    /\ raised' = sensor_targets(s).raised
    /\ UNCHANGED <<modules, connections, port_groups, contract, module_by_id,
                   port_by_id, pc, src, dst, doc, fx>>

Call_actuator_sources(a) ==
    /\ Callable
    /\ call' = [op |-> "actuator_sources", arg |-> Some(a)]
    /\ ret' = actuator_sources(a).val
    /\ raised' = actuator_sources(a).raised
    /\ UNCHANGED <<modules, connections, port_groups, contract, module_by_id,
                   port_by_id, pc, src, dst, doc, fx>>

(***************************************************************************)
(* parsers._parse_port_groups over the port_group elements gs, each        *)
(* [id, members]: out[gid] = PortGroup(gid, members), a later element      *)
(* replacing an earlier one with the same id.                              *)
(***************************************************************************)
parse_port_groups(gs) ==
    [gid \in {gs[i].id : i \in DOMAIN gs} |->
        LET last == CHOOSE i \in DOMAIN gs :
                        /\ gs[i].id = gid
                        /\ \A j \in DOMAIN gs : gs[j].id = gid => j <= i
        IN PortGroup(gid, gs[last].members)]

(***************************************************************************)
(* validation.py: axes, dims_map, ports_compatible.                        *)
(***************************************************************************)
Dim(name, size) == [name |-> name, size |-> size]
Shape(spec, dims) == [spec |-> spec, dims |-> dims]

\* str.split(","): the pieces of s from position i on, cur being the piece
\* read so far
RECURSIVE SplitComma(_, _, _)
SplitComma(s, i, cur) ==
    IF i > Len(s) THEN <<cur>>
    ELSE IF s[i] = "," THEN <<cur>> \o SplitComma(s, i + 1, <<>>)
    ELSE SplitComma(s, i + 1, Append(cur, s[i]))

RECURSIVE LStrip(_)
LStrip(s) == IF s # <<>> /\ Head(s) = " " THEN LStrip(Tail(s)) ELSE s

RECURSIVE RStrip(_)
RStrip(s) ==
    IF s # <<>> /\ s[Len(s)] = " " THEN RStrip(SubSeq(s, 1, Len(s) - 1)) ELSE s

\* str.strip()
Strip(s) == RStrip(LStrip(s))

NonEmpty(s) == s # <<>>

\* None if not spec else [a.strip() for a in spec.split(",") if a.strip()]
axes(spec) ==
    IF spec = None \/ Val(spec) = <<>> THEN None
    ELSE LET pieces == SplitComma(Val(spec), 1, <<>>) IN
         Some(SelectSeq([i \in DOMAIN pieces |-> Strip(pieces[i])], NonEmpty))

\* The loop of dims_map over dims from position i: a later dim replaces an
\* earlier one of the same name, a dim with no name is left out.
RECURSIVE DimsLoop(_, _, _)
DimsLoop(dims, i, out) ==
    IF i > Len(dims) THEN out
    ELSE IF Truthy(dims[i].name)
    THEN DimsLoop(dims, i + 1,
                  [k \in DOMAIN out \cup {Val(dims[i].name)} |->
                      IF k = Val(dims[i].name) THEN dims[i].size ELSE out[k]])
    ELSE DimsLoop(dims, i + 1, out)

dims_map(port) ==
    IF port.shape = None THEN <<>> ELSE DimsLoop(Val(port.shape).dims, 1, <<>>)

\* dict.get(k)
Get(d, k) == IF k \in DOMAIN d THEN d[k] ELSE None

\* The size test of ports_compatible with the wildcard left out.
SizesClash_NoWildcard(vs, vd) ==
    vs # None /\ vd # None /\ vs # vd

\* The body of `for k in set(dm_s) | set(dm_d)`: TRUE when k makes the
\* ports incompatible.
SizesClash(vs, vd) ==
    /\ vs # None
    /\ vd # None
    /\ Val(vs) # -1 /\ Val(vd) # -1 /\ Val(vs) # Val(vd)

ports_compatible(s, d) ==
    IF s.dtype # d.dtype THEN FALSE
    ELSE LET a_src == IF s.shape # None THEN axes(Val(s.shape).spec) ELSE None
             a_dst == IF d.shape # None THEN axes(Val(d.shape).spec) ELSE None
         IN IF a_src # None /\ a_dst # None /\ a_src # a_dst THEN FALSE
            ELSE IF s.shape = None \/ d.shape = None THEN TRUE
            ELSE LET dm_s == dims_map(s)
                     dm_d == dims_map(d)
                 IN \A k \in DOMAIN dm_s \cup DOMAIN dm_d :
                        ~SizesClash(Get(dm_s, k), Get(dm_d, k))

Call_ports_compatible ==
    /\ pc = "function"
    /\ call.op = "none"
    /\ call' = [op |-> "ports_compatible", arg |-> None]
    /\ ret' = Some(ports_compatible(src, dst))
    /\ raised' = None
    /\ UNCHANGED <<modules, connections, port_groups, contract, module_by_id,
                   port_by_id, pc, src, dst, doc, fx>>

(***************************************************************************)
(* SMSModel.check_connections_compatibility.                               *)
(***************************************************************************)
\* The loop returning at the first mismatch it finds.
RECURSIVE Mismatches_First(_, _, _)
Mismatches_First(cs, i, mismatches) ==
    IF i > Len(cs) THEN Return(mismatches)
    ELSE LET r == resolve_connection_ports(cs[i]) IN
         IF r.raised # None THEN r
         ELSE LET sp == Val(r.val)[1] dp == Val(r.val)[2] IN
              IF ~ports_compatible(sp, dp)
              THEN Return(Append(mismatches, <<sp.id, dp.id>>))
              ELSE Mismatches_First(cs, i + 1, mismatches)

\* for c in self.connections: ... from connection i on
RECURSIVE Mismatches(_, _, _)
Mismatches(cs, i, mismatches) ==
    IF i > Len(cs) THEN Return(mismatches)
    ELSE LET r == resolve_connection_ports(cs[i]) IN
         IF r.raised # None THEN r
         ELSE LET sp == Val(r.val)[1] dp == Val(r.val)[2] IN
              Mismatches(cs, i + 1,
                         IF ~ports_compatible(sp, dp)
                         THEN Append(mismatches, <<sp.id, dp.id>>)
                         ELSE mismatches)

check_connections_compatibility == Mismatches(connections, 1, <<>>)

Call_check_connections_compatibility ==
    /\ Callable
    /\ call' = [op |-> "check_connections_compatibility", arg |-> None]
    /\ ret' = check_connections_compatibility.val
    /\ raised' = check_connections_compatibility.raised
    /\ UNCHANGED <<modules, connections, port_groups, contract, module_by_id,
                   port_by_id, pc, src, dst, doc, fx>>

(***************************************************************************)
(* validation.check_sensor_actuator_xor: the sensors in order, then the    *)
(* actuators; the first binding with both fields or neither field truthy   *)
(* raises a ValueError that carries its name.                              *)
(***************************************************************************)
\* The sensor loop with only the "both" test.
RECURSIVE SensorXor_BothOnly(_, _)
SensorXor_BothOnly(ss, i) ==
    IF i > Len(ss) THEN Return(None)
    ELSE IF Truthy(ss[i].maps_to) /\ Truthy(ss[i].maps_to_group)
         THEN Raise(Exc("ValueError",
                        "sensor: set exactly one of maps_to or maps_to_group",
                        ss[i].name))
         ELSE SensorXor_BothOnly(ss, i + 1)

\* for s in sensors: ...
RECURSIVE SensorXor(_, _)
SensorXor(ss, i) ==
    IF i > Len(ss) THEN Return(None)
    ELSE LET both == Truthy(ss[i].maps_to) /\ Truthy(ss[i].maps_to_group)
             none == ~Truthy(ss[i].maps_to) /\ ~Truthy(ss[i].maps_to_group)
         IN IF both \/ none
            THEN Raise(Exc("ValueError",
                           "sensor: set exactly one of maps_to or maps_to_group",
                           ss[i].name))
            ELSE SensorXor(ss, i + 1)

\* for a in actuators: ...
RECURSIVE ActuatorXor(_, _)
ActuatorXor(as, i) ==
    IF i > Len(as) THEN Return(None)
    ELSE LET both == Truthy(as[i].maps_from) /\ Truthy(as[i].maps_from_group)
             none == ~Truthy(as[i].maps_from) /\ ~Truthy(as[i].maps_from_group)
         IN IF both \/ none
            THEN Raise(Exc("ValueError",
                           "actuator: set exactly one of maps_from or maps_from_group",
                           as[i].name))
            ELSE ActuatorXor(as, i + 1)

check_sensor_actuator_xor(sensors, actuators) ==
    LET r == SensorXor(sensors, 1)
    IN IF r.raised # None THEN r ELSE ActuatorXor(actuators, 1)

(***************************************************************************)
(* parsers.py over the elements of a document. A document is               *)
(*   [valid, time_base, units, connections, port_groups, contract]         *)
(* where valid is the verdict of the XSD on it, time_base the dt_ms        *)
(* attribute of <time_base>, units the children of <modules> in document   *)
(* order, each [tag, id, ports], connections the <connection> elements,    *)
(* each [from, to, delay_ms], port_groups the <port_group> elements and    *)
(* contract the <contract> element, if any, [sensors, actuators]. An       *)
(* attribute is an Optional string. The documents explored carry no        *)
(* <shape>, no dt_ms on a unit or on the contract and no observables.      *)
(***************************************************************************)
\* float(s) on the attribute values the documents use.
ParseFloat(s) ==
    IF s = "5" THEN Return(5)
    ELSE IF s = "10" THEN Return(10)
    ELSE Raise(Exc("ValueError", "could not convert string to float", s))

\* _parse_port(e, module_id); _parse_shape(None) is None.
parse_port(e, module_id) == Port(e.id, e.dir, e.dtype, None, module_id)

\* _parse_module(e): always a core.types.Module, whatever the tag of e.
parse_module(e) ==
    Module(e.id, [j \in DOMAIN e.ports |-> parse_port(e.ports[j], e.id)])

\* The class of a decoded unit: _parse_module is the only constructor of
\* units and returns core.types.Module; the Sensor and Actuator classes of
\* sms_types.py are never instantiated.
ClassOf(u) == "Module"

\* root.findall("sms:modules/sms:module"): the children of <modules> whose
\* tag is module, in document order.
IsModuleElement(e) == e.tag = "module"
FindModules(units) == SelectSeq(units, IsModuleElement)

\* _parse_connection(e)
parse_connection(e) ==
    IF e.delay_ms = None THEN Return(Connection(e.from, e.to, None))
    ELSE LET f == ParseFloat(Val(e.delay_ms))
         IN IF f.raised # None THEN f
            ELSE Return(Connection(e.from, e.to, Some(Val(f.val))))

\* [_parse_connection(c) for c in ...]: stops at the first that raises.
RECURSIVE ParseConnections(_, _, _)
ParseConnections(es, i, acc) ==
    IF i > Len(es) THEN Return(acc)
    ELSE LET r == parse_connection(es[i])
         IN IF r.raised # None THEN r
            ELSE ParseConnections(es, i + 1, Append(acc, Val(r.val)))

\* _parse_contract(e)
parse_contract(e) ==
    IF e = None THEN None
    ELSE Some(Contract(
             [i \in DOMAIN Val(e).sensors |->
                 SensorBinding(Val(e).sensors[i].name, Val(e).sensors[i].modality,
                               Val(e).sensors[i].maps_to,
                               Val(e).sensors[i].maps_to_group)],
             [i \in DOMAIN Val(e).actuators |->
                 ActuatorBinding(Val(e).actuators[i].name, Val(e).actuators[i].effector,
                                 Val(e).actuators[i].maps_from,
                                 Val(e).actuators[i].maps_from_group)]))

(***************************************************************************)
(* SMSModel.from_xml, step by step: schema validation, decoding, the       *)
(* constructor (SMSModel_init), the exclusivity check, return. fx is       *)
(* "start", "validated", "decoded", then "returned" or "failed"; an        *)
(* exception raised by a step leaves from_xml at once.                     *)
(***************************************************************************)
\* The validation with its verdict ignored: every document goes on to be
\* decoded.
validate_with_xsd_Ignored ==
    /\ fx = "start"
    /\ call' = [op |-> "validate_with_xsd", arg |-> None]
    /\ fx' = "validated"
    /\ raised' = None
    /\ UNCHANGED <<modules, connections, port_groups, contract, module_by_id,
                   port_by_id, pc, ret, src, dst, doc>>

\* validate_with_xsd(xml_path, "../SMS.xsd"): schema.validate raises on a
\* document the schema rejects.
validate_with_xsd ==
    /\ fx = "start"
    /\ call' = [op |-> "validate_with_xsd", arg |-> None]
    /\ IF doc.valid
       THEN fx' = "validated" /\ raised' = None
       ELSE /\ fx' = "failed"
            /\ raised' = Some(Exc("XMLSchemaValidationError", "", ""))
    /\ UNCHANGED <<modules, connections, port_groups, contract, module_by_id,
                   port_by_id, pc, ret, src, dst, doc>>

\* Lines 64-80: the decoded constructor arguments, or the first error.
Decode(d) ==
    LET tb == IF Truthy(d.time_base) THEN ParseFloat(Val(d.time_base))
              ELSE Return(None)
    IN IF tb.raised # None THEN tb
       ELSE LET ms == [i \in DOMAIN FindModules(d.units) |->
                          parse_module(FindModules(d.units)[i])]
                cs == ParseConnections(d.connections, 1, <<>>)
            IN IF cs.raised # None THEN cs
               ELSE Return([modules |-> ms,
                            connections |-> Val(cs.val),
                            port_groups |-> parse_port_groups(d.port_groups),
                            contract |-> parse_contract(d.contract)])

\* On success the arguments are handed to cls(...): pc becomes "new".
from_xml_decode ==
    /\ fx = "validated"
    /\ call' = [op |-> "decode", arg |-> None]
    /\ LET r == Decode(doc) IN
        IF r.raised # None
        THEN /\ fx' = "failed"
             /\ raised' = r.raised
             /\ UNCHANGED <<modules, connections, port_groups, contract, pc>>
        ELSE /\ fx' = "decoded"
             /\ raised' = None
             /\ modules' = Val(r.val).modules
             /\ connections' = Val(r.val).connections
             /\ port_groups' = Val(r.val).port_groups
             /\ contract' = Val(r.val).contract
             /\ pc' = "new"
    /\ UNCHANGED <<module_by_id, port_by_id, ret, src, dst, doc>>

\* Lines 84-86: if model.contract: check_sensor_actuator_xor(...);
\* return model. A Contract is a dataclass instance, truthy whenever it is
\* not None.
from_xml_check ==
    /\ fx = "decoded"
    /\ pc = "constructed"
    /\ call' = [op |-> "from_xml", arg |-> None]
    /\ LET r == IF contract # None
                THEN check_sensor_actuator_xor(Val(contract).sensors,
                                               Val(contract).actuators)
                ELSE Return(None)
       IN IF r.raised # None
          THEN fx' = "failed" /\ raised' = r.raised /\ ret' = None
          ELSE fx' = "returned" /\ raised' = None /\ ret' = Some("model")
    /\ UNCHANGED <<modules, connections, port_groups, contract, module_by_id,
                   port_by_id, pc, src, dst, doc>>

(***************************************************************************)
(* Inputs.                                                                 *)
(***************************************************************************)
NoPort == Port("", "in", "f32", None, "")

\* _parse_port stamps every port with the id of the unit that owns it.
UnitsOver(ports) ==
    {Module(id, [i \in DOMAIN ps |-> [ps[i] EXCEPT !.module_id = id]]) :
        id \in UnitIds, ps \in SeqsUpTo(ports, MaxPorts)}

PlainPorts(dirs) == {Port(id, d, "f32", None, "") : id \in PortIds, d \in dirs}

InitCommon ==
    /\ module_by_id = <<>>
    /\ port_by_id = <<>>
    /\ pc = "new"
    /\ call = NoCall
    /\ ret = None
    /\ raised = None
    /\ src = NoPort
    /\ dst = NoPort
    /\ doc = NoDoc
    /\ fx = "none"

InitIndex ==
    /\ modules \in SeqsUpTo(UnitsOver(PlainPorts({"in"})), MaxUnits)
    /\ connections = <<>>
    /\ port_groups = <<>>
    /\ contract = None
    /\ InitCommon

NextIndex == SMSModel_init

SpecIndex == InitIndex /\ [][NextIndex]_vars

Delays == {None, Some(5)}

\* The graph inputs name their ports p1, p2, ... in declaration order, so
\* every such model constructs; a connection endpoint beyond the declared
\* ports is an id absent from the port index.
PortName(k) == "p" \o ToString(k)

GraphPortIds == {PortName(k) : k \in 1..MaxTotalPorts}

Connections ==
    {Connection(f, t, d) : f \in GraphPortIds, t \in GraphPortIds, d \in Delays}

\* A layout is a list of units, each an id and the list of its ports
\* without their ids: [dir, dtype, shape].
PortKinds(dirs, dtypes, shapes) == [dir : dirs, dtype : dtypes, shape : shapes]

Layouts(ids, kinds, maxunits) ==
    {us \in SeqsUpTo([id : ids, ports : SeqsUpTo(kinds, MaxTotalPorts)], maxunits) :
        SumSeq([i \in DOMAIN us |-> Len(us[i].ports)]) <= MaxTotalPorts}

NamedUnits(us) ==
    [i \in DOMAIN us |->
        Module(us[i].id,
               [j \in DOMAIN us[i].ports |->
                   Port(PortName(SumSeq([k \in 1..(i - 1) |-> Len(us[k].ports)]) + j),
                        us[i].ports[j].dir, us[i].ports[j].dtype,
                        us[i].ports[j].shape, us[i].id)])]

InitGraph ==
    /\ modules \in {NamedUnits(us) :
                       us \in Layouts(UnitIds, PortKinds(Dirs, {"f32"}, {None}), MaxUnits)}
    /\ connections \in SeqsUpTo(Connections, MaxConns)
    /\ port_groups = <<>>
    /\ contract = None
    /\ InitCommon

NextGraph == SMSModel_init \/ Call_build_graphs

SpecGraph == InitGraph /\ [][NextGraph]_vars

\* The resolver inputs: one unit declaring the first k port names, the
\* port groups decoded from up to MaxGroups port_group elements, and any
\* binding whose two fields are None, empty, or the id of a port or group.
GroupElements ==
    [id : GroupIds, members : SeqsUpTo(GraphPortIds, MaxMembers)]

OptRefs(ids) == {None, Some("")} \cup {Some(id) : id \in ids}

SensorBindings ==
    {SensorBinding("s", "vision", t, g) :
        t \in OptRefs(GraphPortIds), g \in OptRefs(GroupIds)}

ActuatorBindings ==
    {ActuatorBinding("a", Some("arm"), t, g) :
        t \in OptRefs(GraphPortIds), g \in OptRefs(GroupIds)}

InitBind ==
    /\ modules \in {NamedUnits(us) :
                       us \in Layouts({"A"}, PortKinds({"in"}, {"f32"}, {None}), 1)}
    /\ connections = <<>>
    /\ port_groups \in {parse_port_groups(gs) : gs \in SeqsUpTo(GroupElements, MaxGroups)}
    /\ contract = None
    /\ InitCommon

NextBind ==
    \/ SMSModel_init
    \/ \E s \in SensorBindings : Call_sensor_targets(s)
    \/ \E a \in ActuatorBindings : Call_actuator_sources(a)

SpecBind == InitBind /\ [][NextBind]_vars

\* The compatibility inputs. A dim is named t with any size, named c, or
\* unnamed (no name, or the empty name); an axis-spec is absent, empty, or
\* one of a few label lists written with and without blanks and empty
\* pieces.
Sizes == {None, Some(-1), Some(5), Some(10)}

DimChoices ==
    {Dim(Some("t"), z) : z \in Sizes}
        \cup {Dim(Some("c"), Some(5)), Dim(None, Some(5)), Dim(Some(""), Some(10))}

AxisSpecs ==
    {None, Some(<<>>), Some(<<"t", ",", "c">>), Some(<<" ", "t", " ", ",", "c", " ">>),
     Some(<<"c", ",", "t">>), Some(<<"t", ",", ",", "c">>)}

Shapes == {None} \cup {Some(Shape(a, ds)) : a \in AxisSpecs, ds \in SeqsUpTo(DimChoices, MaxDims)}

InitCompat ==
    /\ modules = <<>>
    /\ connections = <<>>
    /\ port_groups = <<>>
    /\ contract = None
    /\ module_by_id = <<>>
    /\ port_by_id = <<>>
    /\ pc = "function"
    /\ call = NoCall
    /\ ret = None
    /\ raised = None
    /\ src \in {Port("p1", "out", t, sh, "A") : t \in DTypes, sh \in Shapes}
    /\ dst \in {Port("p2", "in", t, sh, "B") : t \in DTypes, sh \in Shapes}
    /\ doc = NoDoc
    /\ fx = "none"

NextCompat == Call_ports_compatible

SpecCompat == InitCompat /\ [][NextCompat]_vars

\* The checker inputs: one unit whose ports differ in dtype and in the size
\* of their one dim, and connections between any two port names.
CheckShapes ==
    {None} \cup {Some(Shape(None, <<Dim(Some("t"), z)>>)) : z \in {Some(-1), Some(5), Some(10)}}

InitCheck ==
    /\ modules \in {NamedUnits(us) :
                       us \in Layouts({"A"}, PortKinds({"out"}, DTypes, CheckShapes), 1)}
    /\ connections \in SeqsUpTo({Connection(f, t, None) :
                                    f \in GraphPortIds, t \in GraphPortIds}, MaxConns)
    /\ port_groups = <<>>
    /\ contract = None
    /\ InitCommon

NextCheck == SMSModel_init \/ Call_check_connections_compatibility

SpecCheck == InitCheck /\ [][NextCheck]_vars

\* Documents for from_xml: up to MaxUnits unit elements of any tag, named
\* by position, each with up to MaxLoadPorts ports; up to MaxLoadConns
\* connections; at most one port group; a contract or none, with up to
\* MaxLoadBindings sensors and as many actuators.
UnitName(k) == "U" \o ToString(k)

Tags == {"module", "sensor", "actuator", "region"}

LoadPortIds == {PortName(k) : k \in 1..MaxUnits}

PortElements == [id : LoadPortIds, dir : {"in"}, dtype : {"f32"}]

UnitElements ==
    {[i \in DOMAIN us |-> [tag |-> us[i].tag, id |-> UnitName(i), ports |-> us[i].ports]] :
        us \in SeqsUpTo([tag : Tags, ports : SeqsUpTo(PortElements, MaxLoadPorts)],
                        MaxUnits)}

TimeBases == {None, Some("10"), Some("x")}

ConnectionElements ==
    [from : {PortName(1)}, to : {PortName(2)}, delay_ms : {None, Some("5"), Some("y")}]

SensorElements ==
    [name : {"s"}, modality : {"vision"},
     maps_to : {None, Some(""), Some(PortName(1))}, maps_to_group : {None, Some("g1")}]

ActuatorElements ==
    [name : {"a"}, effector : {Some("arm")},
     maps_from : {None, Some(""), Some(PortName(2))}, maps_from_group : {None, Some("g1")}]

ContractElements ==
    {None} \cup {Some(c) : c \in [sensors : SeqsUpTo(SensorElements, MaxLoadBindings),
                                  actuators : SeqsUpTo(ActuatorElements, MaxLoadBindings)]}

Documents ==
    [valid : BOOLEAN, time_base : TimeBases, units : UnitElements,
     connections : SeqsUpTo(ConnectionElements, MaxLoadConns),
     port_groups : {<<>>}, contract : ContractElements]

InitLoad ==
    /\ doc \in Documents
    /\ fx = "start"
    /\ pc = "none"
    /\ modules = <<>>
    /\ connections = <<>>
    /\ port_groups = <<>>
    /\ contract = None
    /\ module_by_id = <<>>
    /\ port_by_id = <<>>
    /\ call = NoCall
    /\ ret = None
    /\ raised = None
    /\ src = NoPort
    /\ dst = NoPort

NextLoad == validate_with_xsd \/ from_xml_decode \/ SMSModel_init \/ from_xml_check

SpecLoad == InitLoad /\ [][NextLoad]_vars

\* Models with a contract for build_graphs: one unit with up to
\* MaxTotalPorts ports, at most one connection, at most one port group, up
\* to MaxSensors sensor bindings and MaxActuators actuator bindings.
ContractGroups ==
    {<<>>,
     <<[id |-> "g1", members |-> <<>>]>>,
     <<[id |-> "g1", members |-> <<PortName(1), PortName(2)>>]>>}

ContractSensors ==
    {SensorBinding(n, "vision", t, g) :
        n \in {"s", "t"}, t \in {None, Some(PortName(1))}, g \in {None, Some("g1")}}

ContractActuators ==
    {ActuatorBinding("a", Some("arm"), t, g) :
        t \in {None, Some(PortName(2))}, g \in {None, Some("g1")}}

Contracts ==
    {None} \cup {Some(Contract(ss, as)) : ss \in SeqsUpTo(ContractSensors, MaxSensors),
                                          as \in SeqsUpTo(ContractActuators, MaxActuators)}

InitContract ==
    /\ modules \in {NamedUnits(us) :
                       us \in Layouts({"A"}, PortKinds(Dirs, {"f32"}, {None}), 1)}
    /\ connections \in SeqsUpTo({Connection(PortName(1), PortName(2), None)}, 1)
    /\ port_groups \in {parse_port_groups(gs) : gs \in ContractGroups}
    /\ contract \in Contracts
    /\ InitCommon

NextContract == SMSModel_init \/ Call_build_graphs

SpecContract == InitContract /\ [][NextContract]_vars

(***************************************************************************)
(* C1, C2: the indices built by the constructor.                           *)
(***************************************************************************)
\* Positions, in declaration order, of the ports that repeat an earlier id.
RepeatedAt(ps) == {j \in DOMAIN ps : \E i \in 1..(j - 1) : ps[i].id = ps[j].id}

FirstRepeated(ps) == CHOOSE j \in RepeatedAt(ps) : \A k \in RepeatedAt(ps) : j <= k

PortCount(ms) == SumSeq([i \in DOMAIN ms |-> Len(ms[i].ports)])

\* C1: construction has exactly two outcomes. If two ports (of one unit or
\* of two) share an id it raises the duplicate-id error naming the id of
\* the first repeated port in declaration order and produces no model;
\* otherwise it succeeds, port_by_id has as many entries as the units have
\* ports in total, and every port id maps to its own port.
C1_PortIndex ==
    pc # "new" =>
        LET ps == AllPorts(modules) IN
        IF RepeatedAt(ps) # {}
        THEN /\ pc = "failed"
             /\ raised = Some(Exc("ValueError", "duplicate port id",
                                  ps[FirstRepeated(ps)].id))
        ELSE /\ pc = "constructed"
             /\ raised = None
             /\ Cardinality(DOMAIN port_by_id) = PortCount(modules)
             /\ \A i \in DOMAIN modules : \A j \in DOMAIN modules[i].ports :
                   port_by_id[modules[i].ports[j].id] = modules[i].ports[j]

\* A duplicate across two units, met before a later duplicate of another id.
C1_Witness ==
    LET ps == AllPorts(modules) IN
    /\ pc = "failed"
    /\ Len(modules) = 2
    /\ Len(ps) = 4
    /\ RepeatedAt(ps) = {3, 4}
    /\ ps[3].id # ps[4].id
    /\ raised = Some(Exc("ValueError", "duplicate port id", ps[3].id))

UnitIdRepeated(ms) ==
    \E i, j \in DOMAIN ms : i < j /\ ms[i].id = ms[j].id

\* C2: constructing from units two of which share an id fails with a
\* duplicate-identifier error that includes that id, and no model is
\* produced whose module_by_id has fewer entries than the unit list.
C2_UnitIndex ==
    pc # "new" =>
        /\ UnitIdRepeated(modules) =>
              /\ pc = "failed"
              /\ \E i, j \in DOMAIN modules :
                    /\ i < j
                    /\ modules[i].id = modules[j].id
                    /\ raised # None
                    /\ Val(raised).id = modules[j].id
        /\ pc = "constructed" =>
              Cardinality(DOMAIN module_by_id) = Len(modules)

(***************************************************************************)
(* C3, C4, C5, C8: the graphs build_graphs returns.                        *)
(***************************************************************************)
Built == call.op = "build_graphs" /\ raised = None /\ ret # None

PortG == Val(ret).port_g
ModG == Val(ret).mod_g

EdgesOfKind(g, kind) == {i \in DOMAIN g.edges : g.edges[i].attr.kind = kind}

\* The id of the unit that declares port pid, read off the unit list.
OwnerId(pid) ==
    LET k == CHOOSE k \in DOMAIN modules :
                 \E j \in DOMAIN modules[k].ports : modules[k].ports[j].id = pid
    IN modules[k].id

Declared(pid) ==
    \E k \in DOMAIN modules : \E j \in DOMAIN modules[k].ports :
        modules[k].ports[j].id = pid

\* C3: when build_graphs succeeds the port graph has exactly
\* len(connections) edges of kind "connection", parallel ones included
\* (they are distinct edges of the multigraph), and each carries the delay
\* and the from/to ids of its own connection: every connection value has as
\* many such edges, between its two ports, as it has occurrences in the list.
C3_ConnectionEdges ==
    Built =>
        LET ce == EdgesOfKind(PortG, "connection") IN
        /\ Cardinality(ce) = Len(connections)
        /\ \A i, j \in DOMAIN PortG.edges :
              (i # j /\ PortG.edges[i].u = PortG.edges[j].u
                     /\ PortG.edges[i].v = PortG.edges[j].v)
                  => PortG.edges[i].key # PortG.edges[j].key
        /\ \A n \in DOMAIN connections :
              LET c == connections[n] IN
              Cardinality({i \in ce :
                  /\ PortG.edges[i].u = c.from_id
                  /\ PortG.edges[i].v = c.to_id
                  /\ PortG.edges[i].attr =
                        [kind |-> "connection", delay_ms |-> c.delay_ms,
                         from_id |-> c.from_id, to_id |-> c.to_id]})
              = Cardinality({m \in DOMAIN connections : connections[m] = c})

\* Two connections with different delays on one port pair that an internal
\* edge of the unit joins as well.
C3_Witness ==
    /\ Built
    /\ Len(connections) = 2
    /\ connections[1].from_id = connections[2].from_id
    /\ connections[1].to_id = connections[2].to_id
    /\ connections[1].delay_ms # connections[2].delay_ms
    /\ \E i \in EdgesOfKind(PortG, "internal") :
          /\ PortG.edges[i].u = connections[1].from_id
          /\ PortG.edges[i].v = connections[1].to_id

UnitPair(c) == <<OwnerId(c.from_id), OwnerId(c.to_id)>>

\* The (source-port, destination-port) pairs of the connections from
\* position n on that join unit pair e, in declaration order.
RECURSIVE PairsBetween(_, _)
PairsBetween(e, n) ==
    IF n > Len(connections) THEN <<>>
    ELSE (IF UnitPair(connections[n]) = e
          THEN <<<<connections[n].from_id, connections[n].to_id>>>>
          ELSE <<>>) \o PairsBetween(e, n + 1)

\* C4: when build_graphs succeeds the module graph has one edge for each
\* distinct (source-unit, destination-unit) pair the connections induce
\* (units taken by id, as the graph's nodes are; a connection inside a unit
\* gives a self-pair) and no other edge, and the port_pairs of that edge
\* are the port pairs of the connections between the two units, in
\* declaration order.
C4_ModuleEdges ==
    Built =>
        /\ DOMAIN ModG.edges = {UnitPair(connections[n]) : n \in DOMAIN connections}
        /\ \A e \in DOMAIN ModG.edges :
              /\ ModG.edges[e].port_pairs = PairsBetween(e, 1)
              /\ Len(ModG.edges[e].port_pairs) =
                    Cardinality({n \in DOMAIN connections :
                                    UnitPair(connections[n]) = e})

\* Two connections over different port pairs aggregated on one edge between
\* two different units.
C4_Witness ==
    /\ Built
    /\ Len(connections) = 2
    /\ UnitPair(connections[1]) = UnitPair(connections[2])
    /\ OwnerId(connections[1].from_id) # OwnerId(connections[1].to_id)
    /\ <<connections[1].from_id, connections[1].to_id>> #
          <<connections[2].from_id, connections[2].to_id>>
    /\ Cardinality(DOMAIN ModG.edges) = 1
    /\ Len(ModG.edges[UnitPair(connections[1])].port_pairs) = 2

PortsOfDir(m, d) == {j \in DOMAIN m.ports : m.ports[j].dir = d}

\* C5: for every unit with i "in" ports and o "out" ports the port graph has
\* exactly i*o internal edges, one from each input port of the unit to each
\* of its output ports; every internal edge joins an input port to an
\* output port of one and the same unit, and the internal edges number the
\* sum of i*o over the units.
C5_InternalEdges ==
    Built =>
        LET ie == EdgesOfKind(PortG, "internal") IN
        /\ \A k \in DOMAIN modules :
              LET m == modules[k] IN
              /\ \A a \in PortsOfDir(m, "in") : \A b \in PortsOfDir(m, "out") :
                    Cardinality({i \in ie : /\ PortG.edges[i].u = m.ports[a].id
                                            /\ PortG.edges[i].v = m.ports[b].id}) = 1
              /\ Cardinality({i \in ie :
                     /\ \E a \in DOMAIN m.ports : m.ports[a].id = PortG.edges[i].u
                     /\ \E b \in DOMAIN m.ports : m.ports[b].id = PortG.edges[i].v})
                 = Cardinality(PortsOfDir(m, "in")) * Cardinality(PortsOfDir(m, "out"))
        /\ \A i \in ie :
              \E k \in DOMAIN modules :
                  /\ \E a \in PortsOfDir(modules[k], "in") :
                        modules[k].ports[a].id = PortG.edges[i].u
                  /\ \E b \in PortsOfDir(modules[k], "out") :
                        modules[k].ports[b].id = PortG.edges[i].v
        /\ Cardinality(ie) =
              SumSeq([k \in DOMAIN modules |->
                         Cardinality(PortsOfDir(modules[k], "in")) *
                         Cardinality(PortsOfDir(modules[k], "out"))])

\* A unit with two inputs and one output next to a unit with none.
C5_Witness ==
    /\ Built
    /\ Len(modules) = 2
    /\ \E k \in DOMAIN modules :
          /\ Cardinality(PortsOfDir(modules[k], "in")) = 2
          /\ Cardinality(PortsOfDir(modules[k], "out")) = 1
    /\ Cardinality(EdgesOfKind(PortG, "internal")) = 2

BadEndpoint(c) == ~Declared(c.from_id) \/ ~Declared(c.to_id)

\* C8: if a connection has a from-port id or a to-port id absent from the
\* port index, build_graphs raises (the KeyError of the failed lookup, on an
\* absent endpoint id) and returns no graph, wherever that connection
\* stands in the list; a returned port graph has an edge for every
\* declared connection.
C8_UnresolvedConnection ==
    call.op = "build_graphs" =>
        /\ (\E n \in DOMAIN connections : BadEndpoint(connections[n])) =>
              /\ ret = None
              /\ raised # None
              /\ Val(raised).type = "KeyError"
              /\ ~Declared(Val(raised).id)
              /\ \E n \in DOMAIN connections :
                    Val(raised).id \in {connections[n].from_id, connections[n].to_id}
        /\ ret # None =>
              \A n \in DOMAIN connections :
                  \E i \in EdgesOfKind(PortG, "connection") :
                      /\ PortG.edges[i].u = connections[n].from_id
                      /\ PortG.edges[i].v = connections[n].to_id

\* The bad connection stands last, after one that resolves.
C8_Witness ==
    /\ call.op = "build_graphs"
    /\ Len(connections) = 2
    /\ ~BadEndpoint(connections[1])
    /\ Declared(connections[2].from_id)
    /\ ~Declared(connections[2].to_id)
    /\ ret = None
    /\ raised = Some(Exc("KeyError", "", connections[2].to_id))

(***************************************************************************)
(* C6, C7: the binding resolver.                                           *)
(***************************************************************************)
Resolved == call.op \in {"sensor_targets", "actuator_sources"}

\* The two addressing fields of the binding the resolver was called on.
DirectRef ==
    IF call.op = "sensor_targets" THEN Val(call.arg).maps_to
    ELSE Val(call.arg).maps_from

GroupRef ==
    IF call.op = "sensor_targets" THEN Val(call.arg).maps_to_group
    ELSE Val(call.arg).maps_from_group

\* A field is set when it holds a non-empty id, which is how the code and
\* check_sensor_actuator_xor read it.
IsSet(o) == o # None /\ Val(o) # ""

\* C6: the resolver rejects with an error every binding that has both
\* fields set and every binding that has neither set, and returns a port
\* list only for a binding with exactly one of the two set.
C6_Exclusivity ==
    Resolved =>
        /\ (IsSet(DirectRef) /\ IsSet(GroupRef)) => (raised # None /\ ret = None)
        /\ (~IsSet(DirectRef) /\ ~IsSet(GroupRef)) => (raised # None /\ ret = None)
        /\ ret # None => (IsSet(DirectRef) # IsSet(GroupRef))

\* The port declared with id pid, read off the unit list.
PortNamed(pid) ==
    LET k == CHOOSE k \in DOMAIN modules :
                 \E j \in DOMAIN modules[k].ports : modules[k].ports[j].id = pid
        j == CHOOSE j \in DOMAIN modules[k].ports : modules[k].ports[j].id = pid
    IN modules[k].ports[j]

\* C7: for a binding with exactly one field set the resolver returns, for a
\* port id, the one-element list of the port with that id, and for a group
\* id the ports of the group's members, one per member, in the members'
\* order. If the port id, the group id or a member id is absent from its
\* index it raises the unresolved-reference error (a KeyError on the absent
\* id) and returns no list.
C7_Resolution ==
    (Resolved /\ IsSet(DirectRef) # IsSet(GroupRef)) =>
        IF IsSet(DirectRef)
        THEN IF Declared(Val(DirectRef))
             THEN raised = None /\ ret = Some(<<PortNamed(Val(DirectRef))>>)
             ELSE ret = None /\ raised = Some(Exc("KeyError", "", Val(DirectRef)))
        ELSE IF Val(GroupRef) \notin DOMAIN port_groups
             THEN ret = None /\
                  raised = Some(Exc("KeyError", "unknown port_group", Val(GroupRef)))
             ELSE LET ms == port_groups[Val(GroupRef)].members IN
                  IF \A i \in DOMAIN ms : Declared(ms[i])
                  THEN /\ raised = None
                       /\ ret # None
                       /\ Len(Val(ret)) = Len(ms)
                       /\ \A i \in DOMAIN ms : Val(ret)[i] = PortNamed(ms[i])
                  ELSE /\ ret = None
                       /\ raised # None
                       /\ Val(raised).type = "KeyError"
                       /\ \E i \in DOMAIN ms : /\ ~Declared(ms[i])
                                               /\ Val(raised).id = ms[i]

\* A group of three different members, not in the ports' declaration
\* order, resolved to its three ports.
C7_Witness ==
    /\ call.op = "sensor_targets"
    /\ IsSet(GroupRef) /\ ~IsSet(DirectRef)
    /\ Val(GroupRef) \in DOMAIN port_groups
    /\ LET ms == port_groups[Val(GroupRef)].members IN
        /\ Len(ms) = 3
        /\ Cardinality({ms[i] : i \in DOMAIN ms}) = 3
        /\ ms[1] # "p1"
        /\ ret # None
        /\ Len(Val(ret)) = 3
        /\ Val(ret)[1].id = ms[1]

(***************************************************************************)
(* C10: the four rules of ports_compatible, stated on the two ports.       *)
(***************************************************************************)
\* A port declares an axis-spec when it has a shape whose spec is a
\* non-empty string.
DeclaresAxes(p) ==
    /\ p.shape # None
    /\ Val(p.shape).spec # None
    /\ Val(Val(p.shape).spec) # <<>>

Min(S) == CHOOSE x \in S : \A y \in S : x <= y
Max(S) == CHOOSE x \in S : \A y \in S : x >= y

\* The labels of axis-spec string a that start after position b (0 or the
\* position of a comma): each piece between two commas without the blanks
\* around it, the pieces that are all blanks left out.
RECURSIVE LabelsAfter(_, _)
LabelsAfter(a, b) ==
    IF b > Len(a) THEN <<>>
    ELSE LET stop == Min({i \in (b + 1)..Len(a) : a[i] = ","} \cup {Len(a) + 1})
             ink == {i \in (b + 1)..(stop - 1) : a[i] # " "}
             label == IF ink = {} THEN <<>> ELSE <<SubSeq(a, Min(ink), Max(ink))>>
         IN label \o LabelsAfter(a, stop)

Labels(p) == LabelsAfter(Val(Val(p.shape).spec), 0)

DimsOf(p) == Val(p.shape).dims

Named(d) == d.name # None /\ Val(d.name) # ""

\* The positions of the dims of p named n; the last one gives the size.
DimsNamed(p, n) == {i \in DOMAIN DimsOf(p) : Named(DimsOf(p)[i]) /\ Val(DimsOf(p)[i].name) = n}

SizeOf(p, n) == DimsOf(p)[Max(DimsNamed(p, n))].size

Concrete(z) == z # None /\ Val(z) # -1

DimNames(p) == {Val(DimsOf(p)[i].name) : i \in {j \in DOMAIN DimsOf(p) : Named(DimsOf(p)[j])}}

Rule1(s, d) == s.dtype = d.dtype

Rule2(s, d) == (DeclaresAxes(s) /\ DeclaresAxes(d)) => Labels(s) = Labels(d)

Rule4(s, d) ==
    \A n \in DimNames(s) \cap DimNames(d) :
        (Concrete(SizeOf(s, n)) /\ Concrete(SizeOf(d, n)))
            => Val(SizeOf(s, n)) = Val(SizeOf(d, n))

\* C10: ports_compatible returns the result of the four rules: (1) unequal
\* dtypes give incompatible whatever the shapes; (2) when both ports declare
\* an axis-spec, unequal trimmed label sequences give incompatible, and the
\* rule is skipped when either omits it; (3) a port with no shape on either
\* side gives compatible; (4) otherwise every name present on both sides
\* with two sizes that are neither -1 nor unknown must have equal sizes. So
\* sizes 10 and -1 of one name are compatible and sizes 10 and 5 are not.
C10_Compatibility ==
    call.op = "ports_compatible" =>
        /\ ret = Some(/\ Rule1(src, dst)
                      /\ Rule2(src, dst)
                      /\ (src.shape = None \/ dst.shape = None \/ Rule4(src, dst)))
        /\ (src.dtype = dst.dtype /\ src.shape # None /\ dst.shape # None
              /\ ~DeclaresAxes(src)
              /\ DimsOf(src) = <<Dim(Some("t"), Some(10))>>) =>
                 /\ DimsOf(dst) = <<Dim(Some("t"), Some(-1))>> => ret = Some(TRUE)
                 /\ DimsOf(dst) = <<Dim(Some("t"), Some(5))>> => ret = Some(FALSE)

\* Equal dtypes, the same labels written differently, and sizes 10 and -1
\* for the name t: compatible.
C10_Witness ==
    /\ call.op = "ports_compatible"
    /\ src.dtype = dst.dtype
    /\ DeclaresAxes(src) /\ DeclaresAxes(dst)
    /\ Val(src.shape).spec # Val(dst.shape).spec
    /\ DimsOf(src) = <<Dim(Some("t"), Some(10))>>
    /\ DimsOf(dst) = <<Dim(Some("t"), Some(-1))>>
    /\ ret = Some(TRUE)

(***************************************************************************)
(* C9: check_connections_compatibility.                                    *)
(***************************************************************************)
Compatible(s, d) ==
    /\ Rule1(s, d)
    /\ Rule2(s, d)
    /\ (s.shape = None \/ d.shape = None \/ Rule4(s, d))

\* The (source-id, destination-id) pairs of the connections from position
\* n on whose two ports are incompatible, in connection order.
RECURSIVE IncompatibleFrom(_)
IncompatibleFrom(n) ==
    IF n > Len(connections) THEN <<>>
    ELSE LET c == connections[n] IN
         (IF Compatible(PortNamed(c.from_id), PortNamed(c.to_id)) THEN <<>>
          ELSE <<<<c.from_id, c.to_id>>>>) \o IncompatibleFrom(n + 1)

Checked == call.op = "check_connections_compatibility"

\* C9 as claimed: check_connections_compatibility never raises, for any
\* constructed model and any connection list, and returns the pairs of
\* exactly the incompatible connections, in connection order.
C9_NeverRaises ==
    Checked =>
        /\ raised = None
        /\ ret # None
        /\ (\A n \in DOMAIN connections : ~BadEndpoint(connections[n]))
              => ret = Some(IncompatibleFrom(1))

\* C9 amended: when every connection's two port ids are in the port index,
\* check_connections_compatibility does not raise and returns the pairs of
\* exactly the incompatible connections, in connection order (the empty
\* list when all are compatible); when some connection has an endpoint
\* absent from the port index it raises the KeyError of that lookup and
\* returns no list.
C9_Mismatches ==
    Checked =>
        IF \A n \in DOMAIN connections : ~BadEndpoint(connections[n])
        THEN raised = None /\ ret = Some(IncompatibleFrom(1))
        ELSE /\ ret = None
             /\ raised # None
             /\ Val(raised).type = "KeyError"
             /\ ~Declared(Val(raised).id)
             /\ \E n \in DOMAIN connections :
                   Val(raised).id \in {connections[n].from_id, connections[n].to_id}

\* Two incompatible connections over different port pairs, both reported.
C9_Witness ==
    /\ Checked
    /\ Len(connections) = 2
    /\ raised = None
    /\ ret # None
    /\ Len(Val(ret)) = 2
    /\ Val(ret)[1] # Val(ret)[2]
    /\ Val(ret)[1] = <<connections[1].from_id, connections[1].to_id>>

(***************************************************************************)
(* C11, C12: from_xml.                                                     *)
(***************************************************************************)
Finished == fx \in {"returned", "failed"}

\* The bindings the document's contract declares.
DocSensors == IF doc.contract = None THEN <<>> ELSE Val(doc.contract).sensors
DocActuators == IF doc.contract = None THEN <<>> ELSE Val(doc.contract).actuators

\* A binding element that sets both or neither of its addressing fields.
BadSensor(e) == IsSet(e.maps_to) = IsSet(e.maps_to_group)
BadActuator(e) == IsSet(e.maps_from) = IsSet(e.maps_from_group)

HasBadBinding ==
    \/ \E i \in DOMAIN DocSensors : BadSensor(DocSensors[i])
    \/ \E i \in DOMAIN DocActuators : BadActuator(DocActuators[i])

\* raised is an exclusivity error that names one of the document's bad
\* bindings.
ExclusivityErrorRaised ==
    /\ raised # None
    /\ Val(raised).type = "ValueError"
    /\ \/ /\ Val(raised).msg = "sensor: set exactly one of maps_to or maps_to_group"
          /\ \E i \in DOMAIN DocSensors :
                BadSensor(DocSensors[i]) /\ Val(raised).id = DocSensors[i].name
       \/ /\ Val(raised).msg = "actuator: set exactly one of maps_from or maps_from_group"
          /\ \E i \in DOMAIN DocActuators :
                BadActuator(DocActuators[i]) /\ Val(raised).id = DocActuators[i].name

\* C11 as stated: whenever the document's contract holds a binding with
\* both or neither addressing field set, the finished load has failed with
\* an exclusivity error naming such a binding.
C11_ExclusivityError ==
    (Finished /\ HasBadBinding) => (fx = "failed" /\ ExclusivityErrorRaised)

\* The first bad binding in checking order: sensors, then actuators.
FirstBadIsSensor == \E i \in DOMAIN DocSensors : BadSensor(DocSensors[i])

FirstBadName ==
    IF FirstBadIsSensor
    THEN DocSensors[CHOOSE i \in DOMAIN DocSensors :
                        /\ BadSensor(DocSensors[i])
                        /\ \A j \in 1..(i - 1) : ~BadSensor(DocSensors[j])].name
    ELSE DocActuators[CHOOSE i \in DOMAIN DocActuators :
                          /\ BadActuator(DocActuators[i])
                          /\ \A j \in 1..(i - 1) : ~BadActuator(DocActuators[j])].name

\* C11, amended: a load of a document whose contract holds a binding with
\* both or neither addressing field set never returns a model; it fails,
\* and when schema validation, decoding and the constructor have succeeded
\* it fails with the exclusivity error that names the first such binding,
\* sensors before actuators. A returned model's contract holds no such
\* binding.
C11_NoBadBindingLoaded ==
    /\ (Finished /\ HasBadBinding) => (fx = "failed" /\ raised # None /\ ret = None)
    /\ (Finished /\ HasBadBinding /\ pc = "constructed") =>
          /\ ExclusivityErrorRaised
          /\ Val(raised).id = FirstBadName
          /\ Val(raised).msg =
                IF FirstBadIsSensor
                THEN "sensor: set exactly one of maps_to or maps_to_group"
                ELSE "actuator: set exactly one of maps_from or maps_from_group"
    /\ fx = "returned" =>
          /\ ~HasBadBinding
          /\ contract # None =>
                /\ \A i \in DOMAIN Val(contract).sensors :
                      ~BadSensor(Val(contract).sensors[i])
                /\ \A i \in DOMAIN Val(contract).actuators :
                      ~BadActuator(Val(contract).actuators[i])

\* A load that reached the check with a good sensor and an actuator that
\* sets neither field, and failed naming the actuator.
C11_Witness ==
    /\ fx = "failed"
    /\ pc = "constructed"
    /\ Len(DocSensors) = 1
    /\ ~BadSensor(DocSensors[1])
    /\ Len(DocActuators) = 1
    /\ ~IsSet(DocActuators[1].maps_from)
    /\ ~IsSet(DocActuators[1].maps_from_group)
    /\ raised = Some(Exc("ValueError",
                         "actuator: set exactly one of maps_from or maps_from_group",
                         DocActuators[1].name))

\* The strings float() accepts among the attribute values of the documents.
Numeric(x) == x \in {"5", "10"}

\* Positions of the connection elements whose delay_ms does not parse.
BadDelayAt ==
    {i \in DOMAIN doc.connections :
        doc.connections[i].delay_ms # None /\ ~Numeric(Val(doc.connections[i].delay_ms))}

\* The port elements of the unit elements from_xml reads, in document order.
ReadPortElements ==
    Flatten([i \in DOMAIN doc.units |->
                IF doc.units[i].tag = "module" THEN doc.units[i].ports ELSE <<>>])

\* The error of the first step of the load that fails on the document, in
\* the order schema validation, decoding (time base, then connections),
\* indexing, exclusivity check; None when no step fails.
FirstError ==
    IF ~doc.valid THEN Some(Exc("XMLSchemaValidationError", "", ""))
    ELSE IF IsSet(doc.time_base) /\ ~Numeric(Val(doc.time_base))
    THEN Some(Exc("ValueError", "could not convert string to float",
                  Val(doc.time_base)))
    ELSE IF BadDelayAt # {}
    THEN Some(Exc("ValueError", "could not convert string to float",
                  Val(doc.connections[CHOOSE i \in BadDelayAt :
                                         \A j \in BadDelayAt : i <= j].delay_ms)))
    ELSE IF RepeatedAt(ReadPortElements) # {}
    THEN Some(Exc("ValueError", "duplicate port id",
                  ReadPortElements[FirstRepeated(ReadPortElements)].id))
    ELSE IF HasBadBinding
    THEN Some(Exc("ValueError",
                  IF FirstBadIsSensor
                  THEN "sensor: set exactly one of maps_to or maps_to_group"
                  ELSE "actuator: set exactly one of maps_from or maps_from_group",
                  FirstBadName))
    ELSE None

\* Nothing has been decoded and no model object exists.
NothingDecoded ==
    /\ modules = <<>>
    /\ connections = <<>>
    /\ port_groups = <<>>
    /\ contract = None
    /\ module_by_id = <<>>
    /\ port_by_id = <<>>
    /\ pc = "none"

C12_State ==
    /\ fx = "start" => NothingDecoded
    /\ ~doc.valid => (NothingDecoded /\ ret = None /\ fx \in {"start", "failed"})
    /\ fx = "failed" => (raised = FirstError /\ raised # None /\ ret = None)
    /\ fx = "returned" => (FirstError = None /\ raised = None /\ ret # None)
    /\ ret # None => fx = "returned"
    /\ raised # None => fx = "failed"

C12_Step ==
    /\ fx = "failed" => UNCHANGED vars
    /\ fx = "returned" => UNCHANGED vars
    /\ fx' \in {"validated", "decoded", "returned"} => doc.valid
    /\ pc' # "none" => fx \in {"validated", "decoded"}

\* C12: the load is ordered and all-or-nothing. Schema validation comes
\* before any decoding: until it has passed nothing is decoded, and for a
\* document it rejects nothing is ever decoded, no model object is ever
\* built and none is returned. When a later step fails (decoding, the
\* constructor's indexing, the exclusivity check), from_xml ends at once
\* with the error of the first step that fails and returns no model; it
\* returns a model only when no step fails.
C12_AllOrNothing == []C12_State /\ [][C12_Step]_vars

\* A load of a schema-valid document that repeats a port id and also holds
\* a bad binding: it fails in the constructor, with the duplicate-id error.
C12_Witness ==
    /\ fx = "failed"
    /\ doc.valid
    /\ pc = "failed"
    /\ HasBadBinding
    /\ Len(modules) = 2
    /\ raised = Some(Exc("ValueError", "duplicate port id", modules[2].ports[1].id))

(***************************************************************************)
(* C13: the binding nodes and edges of the port graph.                     *)
(***************************************************************************)
Sensors == IF contract = None THEN <<>> ELSE Val(contract).sensors
Actuators == IF contract = None THEN <<>> ELSE Val(contract).actuators

\* The ports a binding resolves to, when build_graphs has succeeded.
Targets(i) == Val(sensor_targets(Sensors[i]).val)
Sources(i) == Val(actuator_sources(Actuators[i]).val)

\* The bindings that resolve to a non-empty port list.
LiveSensors == {i \in DOMAIN Sensors : Targets(i) # <<>>}
LiveActuators == {i \in DOMAIN Actuators : Sources(i) # <<>>}

SensorNode(i) == "sensor:" \o Sensors[i].name
ActuatorNode(i) == "actuator:" \o Actuators[i].name

NodesOfKind(g, kind) ==
    {n \in DOMAIN g.nodes : "kind" \in DOMAIN g.nodes[n] /\ g.nodes[n].kind = kind}

BindingEdges == EdgesOfKind(PortG, "sensor_binding") \cup EdgesOfKind(PortG, "actuator_binding")

\* How many times port id pid occurs in the port list ps.
Occurrences(ps, pid) == Cardinality({k \in DOMAIN ps : ps[k].id = pid})

\* C13: when build_graphs succeeds on a model with a contract, the port
\* graph has one node per sensor binding and one per actuator binding that
\* resolves to a non-empty port list, tagged with its modality or effector;
\* a binding's node is no port's node and no other binding's node; from
\* each sensor node there is one sensor_binding edge to each resolved
\* target, and to each actuator node one actuator_binding edge from each
\* resolved source, and no other binding edges; every binding edge comes
\* after every internal and connection edge.
C13_BindingGraph ==
    (Built /\ contract # None) =>
        /\ Cardinality(NodesOfKind(PortG, "sensor")) = Cardinality(LiveSensors)
        /\ Cardinality(NodesOfKind(PortG, "actuator")) = Cardinality(LiveActuators)
        /\ \A i \in LiveSensors :
              /\ SensorNode(i) \in DOMAIN PortG.nodes
              /\ PortG.nodes[SensorNode(i)] =
                    [kind |-> "sensor", modality |-> Sensors[i].modality]
              /\ ~Declared(SensorNode(i))
              /\ \A j \in LiveSensors : j # i => SensorNode(j) # SensorNode(i)
              /\ \A j \in LiveActuators : ActuatorNode(j) # SensorNode(i)
              /\ \A pid \in DOMAIN PortG.nodes :
                    Cardinality({e \in EdgesOfKind(PortG, "sensor_binding") :
                                    /\ PortG.edges[e].u = SensorNode(i)
                                    /\ PortG.edges[e].v = pid})
                    = Occurrences(Targets(i), pid)
        /\ \A i \in LiveActuators :
              /\ ActuatorNode(i) \in DOMAIN PortG.nodes
              /\ PortG.nodes[ActuatorNode(i)] =
                    [kind |-> "actuator", effector |-> Actuators[i].effector]
              /\ ~Declared(ActuatorNode(i))
              /\ \A j \in LiveActuators : j # i => ActuatorNode(j) # ActuatorNode(i)
              /\ \A pid \in DOMAIN PortG.nodes :
                    Cardinality({e \in EdgesOfKind(PortG, "actuator_binding") :
                                    /\ PortG.edges[e].u = pid
                                    /\ PortG.edges[e].v = ActuatorNode(i)})
                    = Occurrences(Sources(i), pid)
        /\ Cardinality(EdgesOfKind(PortG, "sensor_binding")) =
              SumSeq([i \in DOMAIN Sensors |-> Len(Targets(i))])
        /\ Cardinality(EdgesOfKind(PortG, "actuator_binding")) =
              SumSeq([i \in DOMAIN Actuators |-> Len(Sources(i))])
        /\ \A e \in BindingEdges : \A o \in DOMAIN PortG.edges \ BindingEdges : o < e

(***************************************************************************)
(* C14: decoding the units block.                                          *)
(***************************************************************************)
\* The units block has been decoded.
UnitsDecoded == fx \in {"decoded", "returned"} \/ (fx = "failed" /\ pc # "none")

\* The variant a tag selects: module, sensor and actuator their own,
\* any other tag Module.
VariantOfTag(tag) ==
    IF tag = "sensor" THEN "Sensor"
    ELSE IF tag = "actuator" THEN "Actuator"
    ELSE "Module"

\* C14: once the units block is decoded the unit list has one unit per unit
\* element, in document order, each of the variant its tag selects (Module
\* for a module element and for an unrecognized tag, Sensor for a sensor
\* element, Actuator for an actuator element) and with the element's ports;
\* and in a constructed model the ports of the sensor and actuator elements
\* are keys of the port index.
C14_UnitDecoding ==
    UnitsDecoded =>
        /\ Len(modules) = Len(doc.units)
        /\ \A i \in DOMAIN doc.units :
              i \in DOMAIN modules =>
                  /\ modules[i].id = doc.units[i].id
                  /\ ClassOf(modules[i]) = VariantOfTag(doc.units[i].tag)
                  /\ Len(modules[i].ports) = Len(doc.units[i].ports)
                  /\ \A j \in DOMAIN doc.units[i].ports :
                        modules[i].ports[j].id = doc.units[i].ports[j].id
        /\ pc = "constructed" =>
              \A i \in DOMAIN doc.units :
                  doc.units[i].tag \in {"sensor", "actuator"} =>
                      \A j \in DOMAIN doc.units[i].ports :
                          doc.units[i].ports[j].id \in DOMAIN port_by_id

====
